---- MODULE Spec2Model ----
(***************************************************************************)
(* Contour 3D terrain explorer (frontend/app.js): the terrain load         *)
(* pipeline.  A load fans out one image fetch per map tile, joins them     *)
(* with Promise.all, composites the tiles that arrived into a canvas and   *)
(* installs a heightmap / colour texture and a freshly built terrain mesh. *)
(*                                                                         *)
(* JavaScript runs every event handler and every chain of promise          *)
(* continuations (microtasks) to completion, so one action of this module  *)
(* is one macrotask: a user event or the load / error event of one image,  *)
(* together with every continuation that event makes runnable.             *)
(*                                                                         *)
(* Angles are integers in millidegrees.                                    *)
(*                                                                         *)
(* Spec is the page used one request at a time, with every handler that    *)
(* touches the terrain; SpecConcurrent is two overlapping load requests.   *)
(* SpecTiles is the tile fan-out over a family of bounding boxes,          *)
(* SpecElevation the elevation decoder of fetchDEM over small rasters and  *)
(* SpecMesh the geometry createTerrain builds from small heightmaps.       *)
(* SpecLoad is the load of a place or of the current box with every tile   *)
(* fetch settling in the end, SpecCrop the crop of a finished mosaic over  *)
(* the boxes of SpecTiles, SpecFlood and SpecFloodRun the flood animation, *)
(* SpecCamera the fly and tour modes, SpecMeasure the measurement tool and *)
(* SpecAudio the AudioCaptureProcessor of the capture worklet.             *)
(* The DOM progress bar and the location-info / weather requests, which    *)
(* nothing of the pipeline reads, are left out.                            *)
(***************************************************************************)
EXTENDS Integers, FiniteSets, Sequences, TLC

VARIABLES
    state,      \* the global `state` object of app.js (the fields the pipeline uses)
    dom,        \* the DOM elements the pipeline reads or writes
    task,       \* the async invocations in flight: position and local variables
    canvases,   \* the mosaic canvases created by the invocations: id -> blits
    loader,     \* THREE.TextureLoader loads started by loadTexture
    call,       \* the pixel and vertex arrays of the one call that SpecElevation
                \* and SpecMesh follow: its inputs and, once it has run, its results
                \* (in SpecCamera: the waypoints request toggleTourMode awaits)
    raf,        \* requestAnimationFrame: the animateFlood callbacks pending
    audio       \* the AudioCaptureProcessor, the messages it posted and the
                \* samples it was given

vars == <<state, dom, task, canvases, loader, call, raf, audio>>

\* JavaScript null / undefined.
NULL == [kind |-> "null"]

-----------------------------------------------------------------------------
(* Bounds of the model.                                                    *)

\* Half-width of the box loadLocationTerrain builds around a place, in
\* millidegrees.  The program uses 0.15 degrees (app.js:686), which at zoom
\* 13 makes a mosaic of about fifty tiles; the model uses a box of the same
\* construction that covers one or two tiles at either zoom.
size == 10

\* The exaggeration slider takes the values 0..MaxExag.
MaxExag == 1

\* Number of texture uploads a behaviour may contain.
MaxUploads == 1

\* The async invocations that can be in flight together.
Tasks == {"A", "B"}

\* The places offered to loadLocationTerrain (millidegrees).  P1 lies on the
\* boundary of two tile columns at both zooms, P2 inside one tile.
Places == { [name |-> "P1", lat |-> 20, lon |-> 0],
            [name |-> "P2", lat |-> 20, lon |-> 60] }

-----------------------------------------------------------------------------
(* Program constants.                                                      *)

demZoom == 11
satZoom == 13
tileSize == 256

-----------------------------------------------------------------------------
(* Geography: latLonToTile.                                                *)

Pow2(n) == 2 ^ n

\* (1 - ln(tan(lat) + 1/cos(lat)) / pi) / 2, the Mercator fraction of
\* latLonToTile, tabulated as floor(fraction * 2^24) for the latitudes
\* 0..40 millidegrees (entry lat + 1).
MercatorBits == 24
MercatorTable ==
    << 8388608, 8388561, 8388514, 8388468, 8388421, 8388374, 8388328, 8388281,
       8388235, 8388188, 8388141, 8388095, 8388048, 8388002, 8387955, 8387908,
       8387862, 8387815, 8387769, 8387722, 8387675, 8387629, 8387582, 8387536,
       8387489, 8387442, 8387396, 8387349, 8387303, 8387256, 8387209, 8387163,
       8387116, 8387070, 8387023, 8386976, 8386930, 8386883, 8386837, 8386790,
       8386743 >>

\* x = floor((lon + 180) / 360 * 2^z); the factor 2^6 common to 360000 and
\* 2^z is cancelled to keep the product inside 32 bits.
latLonToTile(lat, lon, z) ==
    [ x |-> ((lon + 180000) * Pow2(z - 6)) \div 5625,
      y |-> MercatorTable[lat + 1] \div Pow2(MercatorBits - z) ]

\* tileToLatLon returns angles in units of 1/128 millidegree, in which the
\* longitude of every tile edge up to zoom 13 is an integer.
AngleUnit == 128

\* atan(sinh(pi - 2 pi y / 2^z)), the latitude of the upper edge of tile row
\* y, tabulated (rounded down) for the three row edges nearest the equator
\* at the two zooms of the program.
TileLatitudes ==
    ( <<11, 1023>> :> 22499 @@ <<11, 1024>> :> 0 @@ <<11, 1025>> :> -22500 @@
      <<13, 4095>> :> 5624  @@ <<13, 4096>> :> 0 @@ <<13, 4097>> :> -5625 )

\* Faulty variant of tileToLatLon: the corner of the tile one column further east.
tileToLatLonNextColumn(x, y, z) ==
    [ lat |-> TileLatitudes[<<z, y>>],
      lon |-> (x + 1) * 5625 * Pow2(13 - z) - 180000 * AngleUnit ]

\* lon = x / 2^z * 360 - 180; lat = atan(sinh(n)), n = pi - 2 pi y / 2^z.
tileToLatLon(x, y, z) ==
    [ lat |-> TileLatitudes[<<z, y>>],
      lon |-> x * 5625 * Pow2(13 - z) - 180000 * AngleUnit ]

Min(a, b) == IF a < b THEN a ELSE b
Max(a, b) == IF a > b THEN a ELSE b

\* The box loadLocationTerrain stores in state.bounds.
BoxAround(lat, lon) ==
    [ north |-> lat + size, south |-> lat - size,
      east  |-> lon + size, west  |-> lon - size ]

-----------------------------------------------------------------------------
(* The fetch frame: the local variables of one fetchDEM or                 *)
(* loadSatelliteTexture invocation.                                        *)

NoFrame ==
    [ started |-> FALSE, joined |-> FALSE, b |-> NULL, zoom |-> 0,
      xMin |-> 0, xMax |-> 0, yMin |-> 0, yMax |-> 0,
      width |-> 0, height |-> 0, requests |-> 0,
      tiles |-> << >>, canvas |-> NULL, loaded |-> 0, error |-> FALSE ]

\* An async invocation: its position and the frames of its two stages.
\* `superseded` records that a later loadLocationTerrain started meanwhile.
IdleTask ==
    [ kind |-> "none", pc |-> "idle", loc |-> NULL,
      dem |-> NoFrame, sat |-> NoFrame, superseded |-> FALSE ]

\* Faulty variant of NewCanvas: one canvas per stage, reused by every invocation.
SharedCanvas(t, stage) == [kind |-> "canvas", owner |-> "A", stage |-> stage]

\* document.createElement("canvas"): every invocation gets a canvas of its own.
NewCanvas(t, stage) == [kind |-> "canvas", owner |-> t, stage |-> stage]

CanvasIds == { NewCanvas(t, stage) : t \in Tasks, stage \in {"dem", "sat"} }

\* Faulty variant of TilePromises: the loops stop one short of xMax and yMax.
TilePromisesExclusive(xMin, xMax, yMin, yMax) ==
    LET rows == yMax - yMin
    IN  [ k \in 1..((xMax - xMin) * rows) |->
            << xMin + ((k - 1) \div rows), yMin + ((k - 1) % rows) >> ]

\* for (x = xMin; x <= xMax; x++) for (y = yMin; y <= yMax; y++)
\*   tilePromises.push(loadImage(url(x, y))...): the tiles in push order.
TilePromises(xMin, xMax, yMin, yMax) ==
    LET rows == yMax - yMin + 1
    IN  [ k \in 1..((xMax - xMin + 1) * rows) |->
            << xMin + ((k - 1) \div rows), yMin + ((k - 1) % rows) >> ]

\* The tile range of a box, the mosaic canvas size and the fan-out of one
\* loadImage per tile (`requests` counts the calls); every promise starts
\* pending.
StartFetch(b, zoom, cv) ==
    LET minTile == latLonToTile(b.north, b.west, zoom)
        maxTile == latLonToTile(b.south, b.east, zoom)
        xMin == Min(minTile.x, maxTile.x)
        xMax == Max(minTile.x, maxTile.x)
        yMin == Min(minTile.y, maxTile.y)
        yMax == Max(minTile.y, maxTile.y)
        tilePromises == TilePromises(xMin, xMax, yMin, yMax)
    IN  [ started |-> TRUE, joined |-> FALSE, b |-> b, zoom |-> zoom,
          xMin |-> xMin, xMax |-> xMax, yMin |-> yMin, yMax |-> yMax,
          width  |-> (xMax - xMin + 1) * tileSize,
          height |-> (yMax - yMin + 1) * tileSize,
          requests |-> Len(tilePromises),
          tiles |-> [ tl \in { tilePromises[k] : k \in 1..Len(tilePromises) }
                        |-> "pending" ],
          canvas |-> cv, loaded |-> 0, error |-> FALSE ]

Pending(fr) == { tl \in DOMAIN fr.tiles : fr.tiles[tl] = "pending" }
Succeeded(fr) == { tl \in DOMAIN fr.tiles : fr.tiles[tl] = "ok" }
Failed(fr) == { tl \in DOMAIN fr.tiles : fr.tiles[tl] = "failed" }

\* The value a tile promise resolves to: the image of tile (x, y) and the
\* pixel offset it is to be drawn at.  `by` records the invocation whose
\* loadImage call produced the image.
TileResult(fr, t, tl) ==
    [ img |-> [zoom |-> fr.zoom, x |-> tl[1], y |-> tl[2]],
      x |-> (tl[1] - fr.xMin) * tileSize,
      y |-> (tl[2] - fr.yMin) * tileSize,
      by |-> t ]

\* Faulty variant of JoinReady: the join without the per-tile .catch(() => null),
\* settled by the first failure.
JoinFailFast(fr) == Pending(fr) = {} \/ Failed(fr) # {}

\* Whether the Promise.all of the frame is resolved: every tile promise is
\* settled (a failure resolves its promise to null, it never rejects).
JoinReady(fr) == Pending(fr) = {}

\* for (const tile of tiles) if (tile?.img) ctx.drawImage(tile.img, tile.x, tile.y)
Blit(cvs, fr, t) ==
    [ cvs EXCEPT ![fr.canvas] = @ \cup { TileResult(fr, t, tl) : tl \in Succeeded(fr) } ]

-----------------------------------------------------------------------------
(* The world an event handler runs in: w.state, w.dom, w.task, w.canvases. *)
(* Every function of app.js below maps the world before to the world after.*)

setStatus(w, msg, type) == [w EXCEPT !.dom.status = [msg |-> msg, type |-> type]]
showLoading(w) == [w EXCEPT !.dom.loading = TRUE]

\* Faulty variant of hideLoading: the overlay stays.
hideLoadingForgotten(w) == w

hideLoading(w) == [w EXCEPT !.dom.loading = FALSE]

TerrainMeshes(scene) == { o \in scene : o.kind = "terrain" }

\* new THREE.Mesh(...): an object distinct from every object of the scene.
FreshId(scene) ==
    LET used == { o.id : o \in TerrainMeshes(scene) }
    IN  CHOOSE n \in 1..(Cardinality(used) + 1) :
            /\ n \notin used
            /\ \A m \in 1..(Cardinality(used) + 1) : m \notin used => n <= m

\* The heights applyHeightmapToGeometry gives the grid: sample / 255 * scale
\* of the heightmap, or the flat plane when no heightmap is installed.
MeshHeights(heightmapTexture, exag) ==
    IF heightmapTexture # NULL
    THEN [kind |-> "displaced", heightmap |-> heightmapTexture, scale |-> exag]
    ELSE [kind |-> "flat"]

\* The material: textured from state.colorTexture, or vertex colours.
MeshMaterial(colorTexture) ==
    IF colorTexture # NULL
    THEN [map |-> colorTexture, vertexColors |-> FALSE]
    ELSE [map |-> NULL, vertexColors |-> TRUE]

\* Faulty variant of RemoveTerrain: the previous mesh stays in the scene.
KeepTerrain(s) == s.scene

\* if (state.terrain) state.scene.remove(state.terrain)
RemoveTerrain(s) ==
    IF s.terrain # NULL THEN s.scene \ {s.terrain} ELSE s.scene

createTerrain(w) ==
    LET scene == RemoveTerrain(w.state)
        mesh  == [ kind |-> "terrain", id |-> FreshId(scene),
                   heights  |-> MeshHeights(w.state.heightmapTexture, w.dom.exag),
                   material |-> MeshMaterial(w.state.colorTexture) ]
    IN  [w EXCEPT !.state.terrain = mesh, !.state.scene = scene \cup {mesh}]

\* Faulty variant of CropRect: the crop starts at the box's east and south
\* edges instead of its west and north edges.
CropRectFromSouthEast(fr) ==
    LET tileBoundsNW == tileToLatLon(fr.xMin, fr.yMin, fr.zoom)
        tileBoundsSE == tileToLatLon(fr.xMax + 1, fr.yMax + 1, fr.zoom)
    IN  [ tileBoundsNW |-> tileBoundsNW, tileBoundsSE |-> tileBoundsSE,
          lonSpan |-> tileBoundsSE.lon - tileBoundsNW.lon,
          latSpan |-> tileBoundsNW.lat - tileBoundsSE.lat,
          x |-> (fr.b.east * AngleUnit - tileBoundsNW.lon) * fr.width,
          y |-> (tileBoundsNW.lat - fr.b.south * AngleUnit) * fr.height,
          w |-> (fr.b.east - fr.b.west) * AngleUnit * fr.width,
          h |-> (fr.b.north - fr.b.south) * AngleUnit * fr.height ]

\* The crop rectangle of the mosaic, from the footprint of the tile range:
\* cropX = x / lonSpan, cropW = w / lonSpan, cropY = y / latSpan and
\* cropH = h / latSpan pixels, kept as fractions.
CropRect(fr) ==
    LET tileBoundsNW == tileToLatLon(fr.xMin, fr.yMin, fr.zoom)
        tileBoundsSE == tileToLatLon(fr.xMax + 1, fr.yMax + 1, fr.zoom)
    IN  [ tileBoundsNW |-> tileBoundsNW, tileBoundsSE |-> tileBoundsSE,
          lonSpan |-> tileBoundsSE.lon - tileBoundsNW.lon,
          latSpan |-> tileBoundsNW.lat - tileBoundsSE.lat,
          x |-> (fr.b.west * AngleUnit - tileBoundsNW.lon) * fr.width,
          y |-> (tileBoundsNW.lat - fr.b.north * AngleUnit) * fr.height,
          w |-> (fr.b.east - fr.b.west) * AngleUnit * fr.width,
          h |-> (fr.b.north - fr.b.south) * AngleUnit * fr.height ]

\* The texture made from a finished mosaic: the mosaic canvas cropped to the
\* box b and rescaled.
CanvasTexture(kind, fr, cvs) ==
    [ kind |-> kind, bounds |-> fr.b, zoom |-> fr.zoom,
      xMin |-> fr.xMin, yMin |-> fr.yMin, xMax |-> fr.xMax, yMax |-> fr.yMax,
      width |-> fr.width, height |-> fr.height, crop |-> CropRect(fr),
      mosaic |-> { [img |-> d.img, x |-> d.x, y |-> d.y] : d \in cvs[fr.canvas] } ]

\* Faulty variant of NoTilesLoaded: any missing tile raises the error.
AnyTileMissing(loaded, totalTiles) == loaded < totalTiles

\* if (loaded === 0) throw new Error("No tiles loaded")
NoTilesLoaded(loaded, totalTiles) == loaded = 0

\* fetchDEM up to its await.
fetchDEM(w, t) ==
    IF w.state.bounds = NULL
    THEN setStatus(w, "Set bounds first", "error")
    ELSE LET cv == NewCanvas(t, "dem")
             w1 == setStatus(showLoading(w), "Fetching DEM...", "loading")
         IN  [w1 EXCEPT !.canvases[cv] = {},
                        !.task[t].dem = StartFetch(w.state.bounds, demZoom, cv),
                        !.task[t].pc = "dem_await"]

\* fetchDEM after its await: composite, decode, install, or the catch block.
fetchDEM_resume(w, t) ==
    LET fr     == w.task[t].dem
        loaded == Cardinality(Succeeded(fr))
        w1 == [w EXCEPT !.canvases = Blit(@, fr, t),
                        !.task[t].dem.joined = TRUE,
                        !.task[t].dem.loaded = loaded]
    IN  IF NoTilesLoaded(loaded, Cardinality(DOMAIN fr.tiles))
        THEN setStatus(hideLoading([w1 EXCEPT !.task[t].dem.error = TRUE]),
                       "DEM Error: No tiles loaded", "error")
        ELSE LET hm == CanvasTexture("heightmap", fr, w1.canvases)
                 w2 == createTerrain([w1 EXCEPT !.state.heightmapTexture = hm,
                                                !.state.colorTexture = NULL])
             IN  setStatus(hideLoading(w2), "Loaded: elevation", "success")

\* loadSatelliteTexture up to its await.
loadSatelliteTexture(w, t) ==
    IF w.state.bounds = NULL
    THEN w
    ELSE LET cv == NewCanvas(t, "sat")
         IN  [w EXCEPT !.canvases[cv] = {},
                       !.task[t].sat = StartFetch(w.state.bounds, satZoom, cv),
                       !.task[t].pc = "sat_await"]

\* loadSatelliteTexture after its await.
loadSatelliteTexture_resume(w, t) ==
    LET fr == w.task[t].sat
        w1 == [w EXCEPT !.canvases = Blit(@, fr, t),
                        !.task[t].sat.joined = TRUE,
                        !.task[t].sat.loaded = Cardinality(Succeeded(fr))]
        tex == CanvasTexture("satellite", fr, w1.canvases)
    IN  createTerrain([w1 EXCEPT !.state.satelliteTexture = tex,
                                 !.state.colorTexture = tex])

\* The async function of task t returns: its frames and canvases are dropped.
Return(w, t) ==
    [w EXCEPT !.task[t] = IdleTask,
              !.canvases = [c \in DOMAIN @ |-> IF c.owner = t THEN {} ELSE @[c]]]

\* loadLocationTerrain after `await loadSatelliteTexture()`.
loadLocationTerrain_afterSat(w, t) ==
    LET w1 == [w EXCEPT !.state.satelliteMode = TRUE,
                        !.dom.satelliteOn = TRUE,
                        !.state.waterLevel = 0]
        w2 == setStatus(hideLoading(w1), "loaded with satellite imagery", "success")
    IN  Return(w2, t)

\* loadLocationTerrain after `await fetchDEM()`.
loadLocationTerrain_afterDEM(w, t) ==
    LET w1 == loadSatelliteTexture(
                  setStatus(w, "Loading satellite imagery...", "loading"), t)
    IN  IF w1.task[t].pc = "sat_await" THEN w1
        ELSE loadLocationTerrain_afterSat(w1, t)

\* toggleSatelliteMode after `await loadSatelliteTexture()`.
toggleSatelliteMode_afterSat(w, t) ==
    Return(setStatus(w, "Satellite view enabled", "success"), t)

\* The continuations that run once the Promise.all of task t is resolved.
Resume(w, t) ==
    IF w.task[t].pc = "dem_await"
    THEN LET w1 == fetchDEM_resume(w, t)
         IN  IF w.task[t].kind = "loadLocationTerrain"
             THEN loadLocationTerrain_afterDEM(w1, t)
             ELSE Return(w1, t)
    ELSE LET w1 == loadSatelliteTexture_resume(w, t)
         IN  IF w.task[t].kind = "loadLocationTerrain"
             THEN loadLocationTerrain_afterSat(w1, t)
             ELSE toggleSatelliteMode_afterSat(w1, t)

-----------------------------------------------------------------------------
(* State.                                                                  *)

ExagValues == 0..MaxExag

\* init(): an empty scene with its lights, nothing loaded.
InitState ==
    [ scene |-> { [kind |-> "ambientLight"], [kind |-> "sunTarget"], [kind |-> "sun"] },
      terrain |-> NULL,
      bounds |-> NULL,
      currentLocation |-> NULL,
      colorTexture |-> NULL,
      heightmapTexture |-> NULL,
      satelliteTexture |-> NULL,
      satelliteMode |-> FALSE,
      waterLevel |-> 0,
      waterPlane |-> NULL,
      elevationMin |-> 0,
      elevationMax |-> 1000,
      waterAnimating |-> FALSE,
      cameraMode |-> "orbit",
      planeMode |-> FALSE,
      tourMode |-> FALSE,
      tourPlaying |-> FALSE,
      tourWaypoints |-> 0,
      tourCurve |-> NULL,
      tourProgress |-> 0,
      measureMode |-> FALSE,
      measurePoints |-> << >>,
      measureLabels |-> << >>,
      measureLine |-> NULL ]

\* The page as index.html delivers it, the exaggeration slider at e.
InitDom(e) ==
    [ exag |-> e, status |-> [msg |-> "", type |-> "none"],
      loading |-> FALSE, satelliteOn |-> FALSE,
      waterSlider |-> 0, waterAnimateBtn |-> "Animate Flood",
      flyBtn |-> "Fly Mode", tourBtn |-> "Tour Mode",
      tourControlsHidden |-> TRUE, tourPlayHidden |-> FALSE,
      measureBtn |-> "Measure", measurePanelHidden |-> TRUE,
      measureListener |-> FALSE, measureDistance |-> [kind |-> "zero"],
      profileHidden |-> TRUE ]

\* No call is followed.
NoCall == [fn |-> "none", pc |-> "none"]

\* Size of the capture buffer of the AudioCaptureProcessor (4096 in the
\* program).
bufferSize == 3

\* new AudioCaptureProcessor(): an empty buffer.  buffer[i] of the program is
\* buffer[i + 1] here; `posted` are the messages sent through the port and
\* `input` the first-channel samples given to process so far.
NewProcessor ==
    [ buffer |-> [i \in 1..bufferSize |-> 0], bufferIndex |-> 0,
      posted |-> << >>, input |-> << >> ]

Init ==
    /\ state = InitState
    /\ dom \in { InitDom(e) : e \in ExagValues }
    /\ task = [t \in Tasks |-> IdleTask]
    /\ canvases = [c \in CanvasIds |-> {}]
    /\ loader = [count |-> 0, pending |-> {}, loaded |-> {}]
    /\ raf = 0
    /\ audio = NewProcessor
    /\ call = NoCall

World == [state |-> state, dom |-> dom, task |-> task, canvases |-> canvases]

Commit(w) ==
    /\ state' = w.state
    /\ dom' = w.dom
    /\ task' = w.task
    /\ canvases' = w.canvases

\* A slot for a new async invocation: none running in it.
Free(t) == task[t].pc = "idle"
NewTask == CHOOSE t \in Tasks : Free(t)
InFlight(t) == task[t].pc \in {"dem_await", "sat_await"}

-----------------------------------------------------------------------------
(* Actions.                                                                *)

\* A place is chosen (search result, famous place, map click):
\* loadLocationTerrain(name, lat, lon) up to its first await.
loadLocationTerrain(t, p) ==
    /\ Free(t) /\ t = NewTask
    /\ LET started == [ u \in Tasks |->
                          IF u = t
                          THEN [IdleTask EXCEPT !.kind = "loadLocationTerrain", !.loc = p]
                          ELSE IF InFlight(u) /\ task[u].kind = "loadLocationTerrain"
                               THEN [task[u] EXCEPT !.superseded = TRUE]
                               ELSE task[u] ]
           w0 == [World EXCEPT !.task = started,
                               !.state.currentLocation = p,
                               !.state.bounds = BoxAround(p.lat, p.lon)]
           w1 == setStatus(showLoading(w0), "Loading place", "loading")
           w2 == fetchDEM(w1, t)
       IN  Commit(IF w2.task[t].pc = "dem_await" THEN w2
                  ELSE loadLocationTerrain_afterDEM(w2, t))
    /\ UNCHANGED <<loader, call, raf, audio>>

\* Click on the fetch-dem button: fetchDEM() up to its await.
fetchDEMClick ==
    /\ IF state.bounds = NULL
       THEN Commit(fetchDEM(World, CHOOSE t \in Tasks : TRUE))
       ELSE \E t \in Tasks :
              /\ Free(t) /\ t = NewTask
              /\ Commit(fetchDEM(
                     [World EXCEPT !.task[t] = [IdleTask EXCEPT !.kind = "fetchDEM"]], t))
    /\ UNCHANGED <<loader, call, raf, audio>>

\* Click on the satellite button: toggleSatelliteMode() up to its await.
toggleSatelliteMode ==
    /\ IF ~state.satelliteMode
       THEN \E t \in Tasks :
              /\ Free(t) /\ t = NewTask
              /\ LET w0 == [World EXCEPT
                              !.task[t] = [IdleTask EXCEPT !.kind = "toggleSatelliteMode"],
                              !.state.satelliteMode = TRUE,
                              !.dom.satelliteOn = TRUE]
                     w1 == loadSatelliteTexture(
                               setStatus(w0, "Loading satellite imagery...", "loading"), t)
                 IN  Commit(IF w1.task[t].pc = "sat_await" THEN w1
                            ELSE toggleSatelliteMode_afterSat(w1, t))
       ELSE LET w0 == [World EXCEPT !.state.satelliteMode = FALSE,
                                    !.dom.satelliteOn = FALSE,
                                    !.state.satelliteTexture = NULL]
            IN  Commit(setStatus(createTerrain(w0), "Terrain view enabled", "success"))
    /\ UNCHANGED <<loader, call, raf, audio>>

\* The frame task t is awaiting.
Stage(t) == IF task[t].pc = "dem_await" THEN "dem" ELSE "sat"
Awaited(t) == IF task[t].pc = "dem_await" THEN task[t].dem ELSE task[t].sat

\* One image of task t settles: its promise resolves to the tile (onload)
\* or, through .catch(() => null), to null (onerror).  When it was the last
\* one pending, Promise.all resolves and the continuations run.
Settle(t, tl, outcome) ==
    /\ InFlight(t)
    /\ tl \in Pending(Awaited(t))
    /\ LET w1 == IF Stage(t) = "dem"
                 THEN [World EXCEPT !.task[t].dem.tiles[tl] = outcome]
                 ELSE [World EXCEPT !.task[t].sat.tiles[tl] = outcome]
           fr == IF Stage(t) = "dem" THEN w1.task[t].dem ELSE w1.task[t].sat
       IN  Commit(IF JoinReady(fr) THEN Resume(w1, t) ELSE w1)
    /\ UNCHANGED <<loader, call, raf, audio>>

TileLoaded(t, tl) == Settle(t, tl, "ok")
TileError(t, tl) == Settle(t, tl, "failed")

\* Faulty variant of exagInput: the slider value changes, the mesh is not rebuilt.
exagInputNoRebuild(v) ==
    /\ v # dom.exag
    /\ Commit([World EXCEPT !.dom.exag = v])
    /\ UNCHANGED <<loader, call, raf, audio>>

\* Input event of the exaggeration slider.
exagInput(v) ==
    /\ v # dom.exag
    /\ LET w0 == [World EXCEPT !.dom.exag = v]
       IN  Commit(IF state.terrain # NULL /\ state.heightmapTexture # NULL
                  THEN createTerrain(w0) ELSE w0)
    /\ UNCHANGED <<loader, call, raf, audio>>

\* uploadFile after the server answered (an image without bounds):
\* loadTexture starts loading the colour texture and installs it at once.
uploadFile ==
    /\ loader.count < MaxUploads
    /\ LET id == loader.count + 1
           w0 == [World EXCEPT !.state.colorTexture = [kind |-> "upload", id |-> id]]
       IN  /\ Commit(setStatus(hideLoading(w0), "Loaded: upload", "success"))
           /\ loader' = [loader EXCEPT !.count = id, !.pending = @ \cup {id}]
           /\ UNCHANGED <<call, raf, audio>>

\* onLoad callback of loadTexture.
textureLoaded(id) ==
    /\ id \in loader.pending
    /\ Commit(createTerrain(World))
    /\ loader' = [loader EXCEPT !.pending = @ \ {id}, !.loaded = @ \cup {id}]
    /\ UNCHANGED <<call, raf, audio>>

\* The image of an uploaded texture fails to decode: no callback was given.
textureError(id) ==
    /\ id \in loader.pending
    /\ loader' = [loader EXCEPT !.pending = @ \ {id}]
    /\ UNCHANGED <<state, dom, task, canvases, call, raf, audio>>

\* No async invocation is in flight.
Quiet == \A t \in Tasks : Free(t)

\* The application used one request at a time: every handler of the page,
\* a new fetch being started only when the previous one has finished.
Next ==
    \/ \E t \in Tasks, p \in Places : Quiet /\ loadLocationTerrain(t, p)
    \/ Quiet /\ fetchDEMClick
    \/ (Quiet \/ state.satelliteMode) /\ toggleSatelliteMode
    \/ \E t \in Tasks : \E tl \in Pending(Awaited(t)) : TileLoaded(t, tl)
    \/ \E t \in Tasks : \E tl \in Pending(Awaited(t)) : TileError(t, tl)
    \/ \E v \in ExagValues : exagInput(v)
    \/ uploadFile
    \/ \E id \in loader.pending : textureLoaded(id)
    \/ \E id \in loader.pending : textureError(id)

Spec == Init /\ [][Next]_vars

\* Overlapping requests: a place is chosen while the load of an earlier
\* one is still in flight; the tile events of the two runs interleave freely.
NextConcurrent ==
    \/ \E t \in Tasks, p \in Places : loadLocationTerrain(t, p)
    \/ \E t \in Tasks : \E tl \in Pending(Awaited(t)) : TileLoaded(t, tl)
    \/ \E t \in Tasks : \E tl \in Pending(Awaited(t)) : TileError(t, tl)

SpecConcurrent == Init /\ [][NextConcurrent]_vars

-----------------------------------------------------------------------------
(* SpecTiles: the tile fan-out of fetchDEM and loadSatelliteTexture over a *)
(* family of bounding boxes.                                               *)

\* The boxes state.bounds is given (millidegrees): typed into the bounds
\* fields, or built by loadLocationTerrain around a place.  They lie within
\* one or two tile rows of the equator and span one to four tile columns;
\* some start at the western edge of the map (longitude -180) and some end
\* at its eastern edge (longitude 180).
Boxes ==
    { [ north |-> ns[1], south |-> ns[2], west |-> w, east |-> w + span ] :
        ns \in { <<10, 0>>, <<20, 10>>, <<40, 0>>, <<40, 30>> },
        w \in { -180000, -50, 0, 60, 179900 },
        span \in { 10, 50, 100 } }
    \cup { BoxAround(20, lon) : lon \in { 0, 180000 - size } }

InitTiles ==
    /\ state \in { [InitState EXCEPT !.bounds = b] : b \in Boxes }
    /\ dom \in { InitDom(e) : e \in ExagValues }
    /\ task = [t \in Tasks |-> IdleTask]
    /\ canvases = [c \in CanvasIds |-> {}]
    /\ loader = [count |-> 0, pending |-> {}, loaded |-> {}]
    /\ raf = 0
    /\ audio = NewProcessor
    /\ call = NoCall

\* The fan-out of either loader, requested once the bounds are set.
NextTiles ==
    \/ Quiet /\ fetchDEMClick
    \/ Quiet /\ ~state.satelliteMode /\ toggleSatelliteMode

SpecTiles == InitTiles /\ [][NextTiles]_vars

-----------------------------------------------------------------------------
(* SpecElevation: the elevation decoder of fetchDEM, from the composited   *)
(* mosaic to the installed heightmap, over small mosaics.                  *)
(* Elevations are integers in units of 1/256 m, the resolution of the      *)
(* encoding; the Float32Array of the decoder holds every such value        *)
(* exactly (24 significant bits).                                          *)

\* Number of pixels of the mosaic.
NumPixels == 3

\* The pixels (R, G, B, A) a mosaic is made of: the transparent black of a
\* tile that did not load, sea level, 1/256 m, -1/256 m, 100 m (opaque and
\* half transparent), 1000.5 m and the highest value of the encoding.
MosaicPixels ==
    { <<0, 0, 0, 0>>, <<128, 0, 0, 255>>, <<128, 0, 1, 255>>, <<127, 255, 255, 255>>,
      <<128, 100, 0, 255>>, <<128, 100, 0, 128>>, <<131, 232, 128, 255>>,
      <<255, 255, 255, 255>> }

\* The bytes of an ImageData: four per pixel, pixel after pixel.  data[j] of
\* the program is data[j + 1] here.
ImageData(pixels) ==
    [ k \in 1..(4 * Len(pixels)) |-> pixels[((k - 1) \div 4) + 1][((k - 1) % 4) + 1] ]

ElevationUnit == 256

\* Faulty variant of decodeTerrarium: the red and green bytes exchanged.
decodeSwapped(r, g, b) == (g * 256 + r) * ElevationUnit + b - 32768 * ElevationUnit

\* elevation[i] = r * 256 + g + b / 256 - 32768
decodeTerrarium(r, g, b) == (r * 256 + g) * ElevationUnit + b - 32768 * ElevationUnit

\* The decoding loop over the n pixels of the mosaic.
Elevation(data, n) ==
    [ i \in 0..(n - 1) |->
        decodeTerrarium(data[i * 4 + 1], data[i * 4 + 2], data[i * 4 + 3]) ]

\* let eMin = Infinity, eMax = -Infinity: beyond every value of the encoding.
Infinity == 16777216

RECURSIVE ElevationRangeAll(_, _, _, _, _)
\* Faulty variant of ElevationRange: every pixel counts, valid or not.
ElevationRangeAll(elevation, n, i, eMin, eMax) ==
    IF i = n THEN [eMin |-> eMin, eMax |-> eMax]
    ELSE ElevationRangeAll(elevation, n, i + 1,
                           Min(eMin, elevation[i]), Max(eMax, elevation[i]))

RECURSIVE ElevationRange(_, _, _, _, _)
\* for (const e of elevation) if (e > 0) { eMin = min(eMin, e); eMax = max(eMax, e) }
\* from pixel i on, with the eMin and eMax reached so far.
ElevationRange(elevation, n, i, eMin, eMax) ==
    IF i = n THEN [eMin |-> eMin, eMax |-> eMax]
    ELSE IF elevation[i] > 0
         THEN ElevationRange(elevation, n, i + 1,
                             Min(eMin, elevation[i]), Max(eMax, elevation[i]))
         ELSE ElevationRange(elevation, n, i + 1, eMin, eMax)

\* The store of the number num / den (den > 0) into a Uint8ClampedArray:
\* rounded to the nearest integer, a tie to the even one, and clamped to 0..255.
ToUint8Clamped(num, den) ==
    LET q == num \div den
        r == num % den
        rounded == IF 2 * r > den \/ (2 * r = den /\ q % 2 = 1) THEN q + 1 ELSE q
    IN  Max(0, Min(255, rounded))

\* Faulty variant of NormalizeSample: the minimum is not subtracted.
NormalizeNoOffset(e, eMin, eMax) ==
    IF e > 0 /\ eMax > eMin THEN ToUint8Clamped(e * 255, eMax - eMin) ELSE 0

\* let val = 0; if (elevation[i] > 0 && eMax > eMin)
\*   val = ((elevation[i] - eMin) / (eMax - eMin)) * 255;   hmData.data[..] = val
NormalizeSample(e, eMin, eMax) ==
    IF e > 0 /\ eMax > eMin THEN ToUint8Clamped((e - eMin) * 255, eMax - eMin) ELSE 0

\* Faulty variant of HeightmapData: the samples are scaled by the maximum
\* alone, whatever the range.
HeightmapByMax(elevation, n, eMin, eMax) ==
    [ k \in 1..(4 * n) |->
        IF (k - 1) % 4 = 3 THEN 255
        ELSE IF elevation[(k - 1) \div 4] > 0
             THEN ToUint8Clamped(elevation[(k - 1) \div 4] * 255, eMax)
             ELSE 0 ]

\* The bytes of hmData: the normalized sample in R, G and B, 255 in A.
HeightmapData(elevation, n, eMin, eMax) ==
    [ k \in 1..(4 * n) |->
        IF (k - 1) % 4 = 3 THEN 255
        ELSE NormalizeSample(elevation[(k - 1) \div 4], eMin, eMax) ]

\* fetchDEM has composited the mosaic of the box b (at least one tile
\* loaded) and is about to decode it.
InitElevation ==
    /\ state = [InitState EXCEPT !.bounds = BoxAround(20, 60)]
    /\ dom \in { [InitDom(e) EXCEPT !.loading = TRUE,
                                    !.status = [msg |-> "Fetching DEM...", type |-> "loading"]] :
                 e \in ExagValues }
    /\ task = [t \in Tasks |-> IdleTask]
    /\ canvases = [c \in CanvasIds |-> {}]
    /\ loader = [count |-> 0, pending |-> {}, loaded |-> {}]
    /\ raf = 0
    /\ audio = NewProcessor
    /\ call \in { [fn |-> "fetchDEM", pc |-> "composited", data |-> ImageData(px)] :
                  px \in [1..NumPixels -> MosaicPixels] }

\* fetchDEM from getImageData to the end of its try block: decode, range,
\* normalize, install the heightmap and rebuild the mesh.  The crop of the
\* heightmap to the box, which leaves the decoded values as they are, is
\* not followed.
decodeMosaic ==
    /\ call.fn = "fetchDEM" /\ call.pc = "composited"
    /\ LET n         == Len(call.data) \div 4
           elevation == Elevation(call.data, n)
           range     == ElevationRange(elevation, n, 0, Infinity, -Infinity)
           hmData    == HeightmapData(elevation, n, range.eMin, range.eMax)
           hm == [kind |-> "heightmap", image |-> [width |-> n, height |-> 1, data |-> hmData]]
           w  == createTerrain([World EXCEPT !.state.heightmapTexture = hm,
                                             !.state.colorTexture = NULL])
       IN  /\ Commit(setStatus(hideLoading(w), "Loaded: elevation", "success"))
           /\ call' = [ fn |-> "fetchDEM", pc |-> "installed", data |-> call.data,
                        elevation |-> elevation,
                        eMin |-> range.eMin, eMax |-> range.eMax,
                        hmData |-> hmData ]
    /\ UNCHANGED <<loader, raf, audio>>

SpecElevation == InitElevation /\ [][decodeMosaic]_vars

-----------------------------------------------------------------------------
(* SpecMesh: the geometry createTerrain builds, over small heightmaps, and *)
(* the colour ramp over a range of heights.                                *)
(* Heights are integers in units of 1/510, which holds sample / 255 * exag *)
(* and the band limits of the ramp exactly; colour components are integers *)
(* in units of 1/4590000, which holds every value of the ramp exactly.     *)

\* Segments of the plane along each axis (256 in the program).
segments == 2

\* Side of the heightmap image in pixels (512 after fetchDEM).
imgSize == 2

\* Vertices of the geometry handed to applyTerrainColors on its own.
NumVertices == 2

HeightUnit == 510
ColourUnit == 4590000

\* The grey levels of the heightmap pixels.
GreyLevels == { 0, 100, 255 }

\* The exaggeration values createTerrain is followed with.
MeshExagValues == { 0, 1, 30 }

\* The heights handed to applyTerrainColors on its own (units of 1/510):
\* below zero, each band limit and its neighbour, inside each band, above 30.
HeightSamples ==
    { -510, 0, 1530, 3059, 3060, 5355, 7649, 7650, 9562, 11474, 11475, 13387,
      15300, 20400 }

\* new THREE.PlaneGeometry(size, size, segments, segments): a flat grid of
\* (segments + 1)^2 vertices.
PlaneGeometry == [ i \in 0..((segments + 1) * (segments + 1) - 1) |-> 0 ]

\* Faulty variant of applyHeightmapToGeometry: the scale is added, not multiplied.
applyHeightmapAdditive(positions, img, scale) ==
    LET width == segments + 1
    IN  [ i \in DOMAIN positions |->
            LET px  == ((i % width) * (img.width - 1)) \div (width - 1)
                py  == ((i \div width) * (img.height - 1)) \div (width - 1)
                idx == (py * img.width + px) * 4
            IN  (img.data[idx + 1] * HeightUnit) \div 255 + scale * HeightUnit ]

\* The z of every vertex: the red byte of the pixel under it, / 255 * scale.
applyHeightmapToGeometry(positions, img, scale) ==
    LET width == segments + 1
    IN  [ i \in DOMAIN positions |->
            LET px  == ((i % width) * (img.width - 1)) \div (width - 1)
                py  == ((i \div width) * (img.height - 1)) \div (width - 1)
                idx == (py * img.width + px) * 4
            IN  (img.data[idx + 1] * scale * HeightUnit) \div 255 ]

\* base + t * coef with t = num / den, base and coef in hundredths.
Ramp(base, coef, num, den) ==
    base * (ColourUnit \div 100) + num * ((coef * (ColourUnit \div 100)) \div den)

\* Faulty variant of TerrainColor: the last band starts at 0.8.
TerrainColorLateSnow(z) ==
    LET one == 30 * HeightUnit
        h   == Min(one, Max(0, z))
    IN  IF 5 * h < one
        THEN << Ramp(15, 30, h, one), Ramp(35, 25, h, one), Ramp(15, 0, h, one) >>
        ELSE IF 2 * h < one
        THEN LET num == 10 * h - 2 * one
                 den == 3 * one
             IN  << Ramp(21, 35, num, den), Ramp(40, -15, num, den), Ramp(15, 10, num, den) >>
        ELSE IF 5 * h < 4 * one
        THEN LET num == 4 * h - 2 * one
                 den == one
             IN  << Ramp(56, -16, num, den), Ramp(45, -15, num, den), Ramp(25, 25, num, den) >>
        ELSE LET num == 4 * h - 3 * one
                 den == one
             IN  << Ramp(60, 35, num, den), Ramp(60, 35, num, den), Ramp(65, 30, num, den) >>

\* The colour applyTerrainColors gives a vertex of height z:
\* normalizedHeight = min(1, max(0, z / 30)) is h / one.
TerrainColor(z) ==
    LET one == 30 * HeightUnit
        h   == Min(one, Max(0, z))
    IN  IF 5 * h < one
        THEN << Ramp(15, 30, h, one), Ramp(35, 25, h, one), Ramp(15, 0, h, one) >>
        ELSE IF 2 * h < one
        THEN LET num == 10 * h - 2 * one
                 den == 3 * one
             IN  << Ramp(21, 35, num, den), Ramp(40, -15, num, den), Ramp(15, 10, num, den) >>
        ELSE IF 4 * h < 3 * one
        THEN LET num == 4 * h - 2 * one
                 den == one
             IN  << Ramp(56, -16, num, den), Ramp(45, -15, num, den), Ramp(25, 25, num, den) >>
        ELSE LET num == 4 * h - 3 * one
                 den == one
             IN  << Ramp(60, 35, num, den), Ramp(60, 35, num, den), Ramp(65, 30, num, den) >>

\* The colour attribute applyTerrainColors sets: one colour per vertex.
applyTerrainColors(positions) == [ i \in DOMAIN positions |-> TerrainColor(positions[i]) ]

\* Faulty variant of TerrainGeometry: the ramp is applied whatever the material.
TerrainGeometryAlwaysRamp(heightmapTexture, colorTexture, exag) ==
    LET positions == IF heightmapTexture # NULL
                     THEN applyHeightmapToGeometry(PlaneGeometry, heightmapTexture.image, exag)
                     ELSE PlaneGeometry
    IN  [ positions |-> positions, color |-> applyTerrainColors(positions) ]

\* The geometry of the mesh createTerrain builds: the vertex heights and,
\* when the material takes vertex colours, the colour attribute.
TerrainGeometry(heightmapTexture, colorTexture, exag) ==
    LET positions == IF heightmapTexture # NULL
                     THEN applyHeightmapToGeometry(PlaneGeometry, heightmapTexture.image, exag)
                     ELSE PlaneGeometry
    IN  [ positions |-> positions,
          color |-> IF colorTexture # NULL THEN NULL ELSE applyTerrainColors(positions) ]

\* The heightmap textures: every imgSize x imgSize image of grey pixels.
Heightmaps ==
    { [ kind |-> "heightmap",
        image |-> [ width |-> imgSize, height |-> imgSize,
                    data |-> ImageData([ k \in 1..(imgSize * imgSize) |->
                                           <<px[k], px[k], px[k], 255>> ]) ] ] :
      px \in [1..(imgSize * imgSize) -> GreyLevels] }

\* Either createTerrain is about to run with some heightmap (or none) and
\* some colour texture (or none) installed, or applyTerrainColors is about
\* to run on a geometry of given heights.
InitMesh ==
    /\ dom \in { InitDom(e) : e \in MeshExagValues }
    /\ task = [t \in Tasks |-> IdleTask]
    /\ canvases = [c \in CanvasIds |-> {}]
    /\ loader = [count |-> 0, pending |-> {}, loaded |-> {}]
    /\ raf = 0
    /\ audio = NewProcessor
    /\ \/ /\ state \in { [InitState EXCEPT !.heightmapTexture = hm, !.colorTexture = ct] :
                         hm \in Heightmaps \cup {NULL},
                         ct \in {NULL, [kind |-> "upload", id |-> 1]} }
          /\ call = [fn |-> "createTerrain", pc |-> "call"]
       \/ /\ state = InitState
          /\ call \in { [fn |-> "applyTerrainColors", pc |-> "call", positions |-> z] :
                        z \in [0..(NumVertices - 1) -> HeightSamples] }

\* createTerrain(), with the arrays of the geometry it builds.
createTerrainCall ==
    /\ call.fn = "createTerrain" /\ call.pc = "call"
    /\ Commit(createTerrain(World))
    /\ call' = [ fn |-> "createTerrain", pc |-> "return",
                 geometry |-> TerrainGeometry(state.heightmapTexture,
                                              state.colorTexture, dom.exag) ]
    /\ UNCHANGED <<loader, raf, audio>>

\* applyTerrainColors(geometry).
applyTerrainColorsCall ==
    /\ call.fn = "applyTerrainColors" /\ call.pc = "call"
    /\ call' = [ fn |-> "applyTerrainColors", pc |-> "return",
                 geometry |-> [ positions |-> call.positions,
                                color |-> applyTerrainColors(call.positions) ] ]
    /\ UNCHANGED <<state, dom, task, canvases, loader, raf, audio>>

NextMesh ==
    \/ createTerrainCall
    \/ applyTerrainColorsCall

SpecMesh == InitMesh /\ [][NextMesh]_vars

-----------------------------------------------------------------------------
(* SpecCrop: the loads of SpecTiles carried on to the crop of the finished *)
(* mosaic, every tile arriving.                                            *)

NextCrop ==
    \/ Quiet /\ fetchDEMClick
    \/ Quiet /\ ~state.satelliteMode /\ toggleSatelliteMode
    \/ \E t \in Tasks : \E tl \in Pending(Awaited(t)) : TileLoaded(t, tl)

SpecCrop == InitTiles /\ [][NextCrop]_vars

-----------------------------------------------------------------------------
(* SpecLoad: a place is loaded, or the current box is fetched, one request *)
(* at a time, and every image the browser was asked for fires its load or  *)
(* its error event in the end.                                             *)

NextLoad ==
    \/ \E t \in Tasks, p \in Places : Quiet /\ loadLocationTerrain(t, p)
    \/ Quiet /\ fetchDEMClick
    \/ \E t \in Tasks : \E tl \in Pending(Awaited(t)) : TileLoaded(t, tl)
    \/ \E t \in Tasks : \E tl \in Pending(Awaited(t)) : TileError(t, tl)

\* Some pending image settles.
TileSettles ==
    \E t \in Tasks : \E tl \in Pending(Awaited(t)) : TileLoaded(t, tl) \/ TileError(t, tl)

\* An image is pending: exactly the states in which TileSettles is enabled.
TilePending == \E t \in Tasks : InFlight(t) /\ Pending(Awaited(t)) # {}

\* Weak fairness of TileSettles, WF_vars(TileSettles), with its
\* ENABLED <<TileSettles>>_vars written as the guard TilePending.
TilesSettleInTheEnd == []<>(~TilePending) \/ []<><<TileSettles>>_vars

SpecLoad == Init /\ [][NextLoad]_vars /\ TilesSettleInTheEnd

-----------------------------------------------------------------------------
(* SpecFlood: the flood controls.  Water levels are counted in halves of a *)
(* percent (WaterUnit to the percent), the step of animateFlood; the water *)
(* plane's height and opacity are in 1/2000.  raf is the number of         *)
(* animateFlood callbacks requestAnimationFrame holds for the next frame.  *)

\* Most callbacks followed at a time.
MaxCallbacks == 2

WaterUnit == 2
WaterStep == 1
WaterFull == 100 * WaterUnit

\* Positions of the water-level slider (percent) that are tried.
SliderLevels == {0, 50, 100}

Flood == [state |-> state, dom |-> dom, raf |-> raf]

CommitFlood(f) ==
    /\ state' = f.state
    /\ dom' = f.dom
    /\ raf' = f.raf
    /\ UNCHANGED <<task, canvases, loader, call, audio>>

createWaterPlane(f) ==
    [f EXCEPT !.state.waterPlane = [kind |-> "waterPlane", visible |-> FALSE,
                                    y |-> -10000, opacity |-> 1500],
              !.state.scene = f.state.scene \cup {[kind |-> "waterPlane"]}]

updateWaterPlane(f) ==
    LET g == IF f.state.waterPlane = NULL THEN createWaterPlane(f) ELSE f
    IN  [g EXCEPT !.state.waterPlane =
            [ kind |-> "waterPlane",
              visible |-> g.state.waterLevel > 0,
              y |-> g.state.waterLevel * g.dom.exag * 8 - 2000,
              opacity |-> 1200 + 2 * g.state.waterLevel ]]

\* The slider shows the level; its label rounds it.
ShowLevel(f) == updateWaterPlane([f EXCEPT !.dom.waterSlider = f.state.waterLevel])

\* Faulty variant of animateFlood: the level is not stopped at 100.
animateFloodUnstopped(f) ==
    IF ~f.state.waterAnimating THEN f
    ELSE LET f1 == [f EXCEPT !.state.waterLevel =
                        IF @ < WaterFull THEN @ + WaterStep ELSE @]
         IN  [ShowLevel(f1) EXCEPT !.raf = @ + 1]

\* One call of animateFlood.
animateFlood(f) ==
    IF ~f.state.waterAnimating THEN f
    ELSE LET f1 == [f EXCEPT !.state.waterLevel = @ + WaterStep]
             f2 == IF f1.state.waterLevel >= WaterFull
                   THEN setStatus([f1 EXCEPT !.state.waterLevel = WaterFull,
                                             !.state.waterAnimating = FALSE,
                                             !.dom.waterAnimateBtn = "Animate Flood"],
                                  "Flood simulation complete!", "success")
                   ELSE f1
             f3 == ShowLevel(f2)
         IN  IF f3.state.waterAnimating THEN [f3 EXCEPT !.raf = @ + 1] ELSE f3

\* n callbacks of one frame run one after the other; what they request runs
\* in the next frame.
RECURSIVE RunCallbacks(_, _)
RunCallbacks(f, n) ==
    IF n = 0 THEN f ELSE RunCallbacks(animateFlood(f), n - 1)

\* Click on water-animate.
toggleWaterAnimation ==
    /\ raf < MaxCallbacks
    /\ CommitFlood(
         IF state.waterAnimating
         THEN [Flood EXCEPT !.state.waterAnimating = FALSE,
                            !.dom.waterAnimateBtn = "Animate Flood"]
         ELSE animateFlood([Flood EXCEPT !.state.waterAnimating = TRUE,
                                         !.state.waterLevel = 0,
                                         !.dom.waterAnimateBtn = "Stop"]))

\* Click on water-reset.
resetWater ==
    CommitFlood(
        LET f1 == [Flood EXCEPT !.state.waterAnimating = FALSE,
                                !.state.waterLevel = 0,
                                !.dom.waterSlider = 0,
                                !.dom.waterAnimateBtn = "Animate Flood"]
        IN  setStatus(updateWaterPlane(f1), "Water level reset", "success"))

\* The water-level slider is moved to level percent.
waterSliderInput(level) ==
    CommitFlood(updateWaterPlane([Flood EXCEPT !.dom.waterSlider = level * WaterUnit,
                                               !.state.waterLevel = level * WaterUnit]))

\* An animation frame: the callbacks held are run.
AnimationFrame ==
    /\ raf > 0
    /\ CommitFlood(RunCallbacks([Flood EXCEPT !.raf = 0], raf))

NextFlood ==
    \/ toggleWaterAnimation
    \/ resetWater
    \/ \E level \in SliderLevels : waterSliderInput(level)
    \/ AnimationFrame

SpecFlood == Init /\ [][NextFlood]_vars

\* A flood animation is started when none runs and is left to run; the
\* browser keeps delivering animation frames.
NextFloodRun ==
    \/ ~state.waterAnimating /\ raf = 0 /\ toggleWaterAnimation
    \/ AnimationFrame

SpecFloodRun == Init /\ [][NextFloodRun]_vars /\ WF_vars(AnimationFrame)

-----------------------------------------------------------------------------
(* SpecCamera: the fly button and the tour controls.  state.tourWaypoints  *)
(* is the number of waypoints; a tour takes TourFrames frames.  While the  *)
(* request for the waypoints of a box is in flight, call follows it.       *)

\* Frames a tour takes (delta / state.tourDuration adds up to 1).
TourFrames == 2

\* getDefaultWaypoints().length
DefaultWaypoints == 4

\* Numbers of waypoints /api/tour-waypoints answers with.
ServerWaypoints == {0, 1, 5}

Camera == [state |-> state, dom |-> dom, call |-> call]

CommitCamera(c) ==
    /\ state' = c.state
    /\ dom' = c.dom
    /\ call' = c.call
    /\ UNCHANGED <<task, canvases, loader, raf, audio>>

toggleFlyMode(c) ==
    IF c.state.cameraMode = "orbit"
    THEN [c EXCEPT !.state.cameraMode = "fly", !.state.planeMode = TRUE,
                   !.dom.flyBtn = "Exit Fly"]
    ELSE [c EXCEPT !.state.cameraMode = "orbit", !.state.planeMode = FALSE,
                   !.dom.flyBtn = "Fly Mode"]

setupTourPath(c) ==
    IF c.state.tourWaypoints < 2 THEN c
    ELSE [c EXCEPT !.state.tourCurve = [points |-> c.state.tourWaypoints]]

exitTourMode(c) ==
    [c EXCEPT !.dom.tourBtn = "Tour Mode",
              !.state.tourMode = FALSE,
              !.state.tourPlaying = FALSE,
              !.dom.tourControlsHidden = TRUE,
              !.dom.tourPlayHidden = FALSE,
              !.state.cameraMode = "orbit"]

\* toggleTourMode after await generateTourWaypoints().
toggleTourMode_afterWaypoints(c) ==
    setStatus(setupTourPath(c), "Tour ready - press Play to begin", "success")

\* toggleTourMode up to its await of the waypoints request; without a box
\* the default waypoints are taken at once.
toggleTourMode(c) ==
    IF c.state.tourMode THEN exitTourMode(c)
    ELSE LET c1 == [c EXCEPT !.dom.tourBtn = "Exit Tour",
                             !.state.tourMode = TRUE,
                             !.dom.tourControlsHidden = FALSE]
         IN  IF c1.state.bounds = NULL
             THEN toggleTourMode_afterWaypoints(
                      [c1 EXCEPT !.state.tourWaypoints = DefaultWaypoints])
             ELSE [setStatus(c1, "Generating scenic tour...", "loading")
                      EXCEPT !.call = [fn |-> "toggleTourMode", pc |-> "fetch"]]

playTour(c) ==
    IF c.state.tourWaypoints = 0 THEN c
    ELSE setStatus([c EXCEPT !.state.tourPlaying = TRUE,
                             !.state.cameraMode = "tour",
                             !.dom.tourPlayHidden = TRUE],
                   "Tour playing...", "success")

pauseTour(c) ==
    [c EXCEPT !.state.tourPlaying = FALSE, !.dom.tourPlayHidden = FALSE]

restartTour(c) == playTour([c EXCEPT !.state.tourProgress = 0])

\* Click on fly-btn (or on the mobile exit button).
flyClick == CommitCamera(toggleFlyMode(Camera))

\* Click on tour-btn; one waypoints request is followed at a time.
tourClick ==
    /\ call = NoCall
    /\ CommitCamera(toggleTourMode(Camera))

\* The tour controls are on the page while tour mode is on; of tour-play and
\* tour-pause one is shown.
tourCloseClick == ~dom.tourControlsHidden /\ CommitCamera(exitTourMode(Camera))
tourPlayClick ==
    ~dom.tourControlsHidden /\ ~dom.tourPlayHidden /\ CommitCamera(playTour(Camera))
tourPauseClick ==
    ~dom.tourControlsHidden /\ dom.tourPlayHidden /\ CommitCamera(pauseTour(Camera))
tourRestartClick == ~dom.tourControlsHidden /\ CommitCamera(restartTour(Camera))

\* The answer of /api/tour-waypoints: n waypoints, or a failure.
waypointsAnswer(n, ok) ==
    /\ call = [fn |-> "toggleTourMode", pc |-> "fetch"]
    /\ CommitCamera(toggleTourMode_afterWaypoints(
           [Camera EXCEPT !.call = NoCall,
                          !.state.tourWaypoints =
                              IF ok /\ n > 0 THEN n ELSE DefaultWaypoints]))

\* updateTour in a frame of a playing tour.
updateTour ==
    /\ state.tourPlaying /\ state.tourCurve # NULL
    /\ CommitCamera(
         IF state.tourProgress + 1 >= TourFrames
         THEN setStatus(pauseTour([Camera EXCEPT !.state.tourProgress = 0]),
                        "Tour completed! Saving video...", "success")
         ELSE [Camera EXCEPT !.state.tourProgress = @ + 1])

\* The page with or without a box chosen.
InitCamera ==
    /\ state \in { [InitState EXCEPT !.bounds = b] : b \in {NULL} \cup Boxes }
    /\ dom \in { InitDom(e) : e \in ExagValues }
    /\ task = [t \in Tasks |-> IdleTask]
    /\ canvases = [c \in CanvasIds |-> {}]
    /\ loader = [count |-> 0, pending |-> {}, loaded |-> {}]
    /\ raf = 0
    /\ audio = NewProcessor
    /\ call = NoCall

NextCamera ==
    \/ flyClick
    \/ tourClick
    \/ tourCloseClick
    \/ tourPlayClick
    \/ tourPauseClick
    \/ tourRestartClick
    \/ \E n \in ServerWaypoints, ok \in BOOLEAN : waypointsAnswer(n, ok)
    \/ updateTour

SpecCamera == InitCamera /\ [][NextCamera]_vars

-----------------------------------------------------------------------------
(* SpecMeasure: the measurement tool.  A click on the canvas hits the      *)
(* terrain in one of HitPoints or misses it (the raycast is an input); a   *)
(* terrain comes from an uploaded texture.  dom.measureListener says       *)
(* whether onMeasureClick is registered on the canvas.                     *)

\* Points of the terrain a click can hit.
HitPoints ==
    { [x |-> 0, y |-> 1, z |-> 0], [x |-> 3, y |-> 0, z |-> 4],
      [x |-> -2, y |-> 2, z |-> 1], [x |-> 5, y |-> 3, z |-> -5] }

Markers(scene) == { o \in scene : o.kind = "marker" }

\* new THREE.Mesh(markerGeo, markerMat): an object distinct from the markers
\* of the scene.
NewMarker(scene, point) ==
    LET used == { o.id : o \in Markers(scene) }
    IN  [ kind |-> "marker", position |-> point,
          id |-> CHOOSE n \in 1..(Cardinality(used) + 1) :
                    /\ n \notin used
                    /\ \A m \in 1..(Cardinality(used) + 1) : m \notin used => n <= m ]

Range(seq) == { seq[i] : i \in DOMAIN seq }

\* Faulty variant of clearMeasurePoints: the markers are kept.
clearMeasurePointsKeepMarkers(w) ==
    [w EXCEPT !.state.measurePoints = << >>,
              !.state.scene = @ \ {w.state.measureLine},
              !.state.measureLine = NULL,
              !.dom.measureDistance = [kind |-> "zero"],
              !.dom.profileHidden = TRUE]

clearMeasurePoints(w) ==
    [w EXCEPT !.state.measurePoints = << >>,
              !.state.scene = (@ \ Range(w.state.measureLabels)) \ {w.state.measureLine},
              !.state.measureLabels = << >>,
              !.state.measureLine = NULL,
              !.dom.measureDistance = [kind |-> "zero"],
              !.dom.profileHidden = TRUE]

calculateMeasurement(w) ==
    LET p1 == w.state.measurePoints[1]
        p2 == w.state.measurePoints[2]
        line == [kind |-> "measureLine", from |-> p1, to |-> p2]
    IN  [w EXCEPT !.state.measureLine = line,
                  !.state.scene = @ \cup {line},
                  !.dom.measureDistance = [kind |-> "distance", from |-> p1, to |-> p2],
                  !.dom.profileHidden = FALSE]

\* state.measurePoints.push(point) with its marker.
PushPoint(w, point) ==
    LET marker == NewMarker(w.state.scene, point)
    IN  [w EXCEPT !.state.measurePoints = Append(@, point),
                  !.state.scene = @ \cup {marker},
                  !.state.measureLabels = Append(@, marker)]

exitMeasureMode(w) ==
    clearMeasurePoints([w EXCEPT !.state.measureMode = FALSE,
                                 !.dom.measureBtn = "Measure",
                                 !.dom.measurePanelHidden = TRUE,
                                 !.dom.profileHidden = TRUE,
                                 !.dom.measureListener = FALSE])

\* Click on measure-btn.
toggleMeasureMode ==
    /\ Commit(IF ~state.measureMode
              THEN setStatus([World EXCEPT !.state.measureMode = TRUE,
                                           !.dom.measureBtn = "Cancel",
                                           !.dom.measurePanelHidden = FALSE,
                                           !.dom.measureListener = TRUE],
                             "Click terrain to place measurement points", "success")
              ELSE exitMeasureMode([World EXCEPT !.state.measureMode = FALSE]))
    /\ UNCHANGED <<loader, call, raf, audio>>

\* Click on measure-close and on measure-clear, buttons of the measure panel.
measureCloseClick ==
    /\ ~dom.measurePanelHidden
    /\ Commit(exitMeasureMode(World))
    /\ UNCHANGED <<loader, call, raf, audio>>

measureClearClick ==
    /\ ~dom.measurePanelHidden
    /\ Commit(clearMeasurePoints(World))
    /\ UNCHANGED <<loader, call, raf, audio>>

\* A click on the canvas whose ray hits the terrain in point.
onMeasureClick(point) ==
    /\ dom.measureListener
    /\ Commit(IF ~state.measureMode \/ state.terrain = NULL THEN World
              ELSE LET w1 == PushPoint(World, point)
                   IN  IF Len(w1.state.measurePoints) = 2
                       THEN calculateMeasurement(w1)
                       ELSE IF Len(w1.state.measurePoints) > 2
                            THEN PushPoint(clearMeasurePoints(w1), point)
                            ELSE w1)
    /\ UNCHANGED <<loader, call, raf, audio>>

NextMeasure ==
    \/ uploadFile
    \/ \E id \in loader.pending : textureLoaded(id)
    \/ \E id \in loader.pending : textureError(id)
    \/ toggleMeasureMode
    \/ measureCloseClick
    \/ measureClearClick
    \/ \E point \in HitPoints : onMeasureClick(point)

SpecMeasure == Init /\ [][NextMeasure]_vars

-----------------------------------------------------------------------------
(* SpecAudio: the AudioCaptureProcessor of the capture worklet.  process   *)
(* is called with the channels of its first input; audio.input keeps the   *)
(* first-channel samples in arrival order and audio.posted the messages    *)
(* posted to the port.                                                     *)

\* Longest block of samples given to one call, and most samples in all.
MaxBlock == 4
MaxSamples == 6

Samples == {0, 1}

Blocks == UNION { [1..n -> Samples] : n \in 0..MaxBlock }

\* inputs[0]: no channel, one channel, or two channels of different data.
Inputs ==
    {<< >>} \cup { <<b>> : b \in Blocks }
            \cup { <<b, [i \in DOMAIN b |-> 1 - b[i]]>> : b \in Blocks }

\* Faulty variant of StoreSample: after a message the first slot is skipped.
StoreSampleSkipSlot(a, v) ==
    LET b == [a EXCEPT !.buffer[a.bufferIndex + 1] = v, !.bufferIndex = @ + 1]
    IN  IF b.bufferIndex >= bufferSize
        THEN [b EXCEPT !.posted = Append(@, b.buffer), !.bufferIndex = 1]
        ELSE b

\* The body of the loop of process for one sample v.
StoreSample(a, v) ==
    LET b == [a EXCEPT !.buffer[a.bufferIndex + 1] = v, !.bufferIndex = @ + 1]
    IN  IF b.bufferIndex >= bufferSize
        THEN [b EXCEPT !.posted = Append(@, b.buffer), !.bufferIndex = 0]
        ELSE b

\* for (let i = 0; i < channelData.length; i++), from sample i on.
RECURSIVE StoreFrom(_, _, _)
StoreFrom(a, channelData, i) ==
    IF i > Len(channelData) THEN a
    ELSE StoreFrom(StoreSample(a, channelData[i]), channelData, i + 1)

process(a, input) ==
    IF Len(input) > 0
    THEN StoreFrom([a EXCEPT !.input = @ \o input[1]], input[1], 1)
    ELSE a

\* The audio thread calls process with the next render quantum.
processCall(input) ==
    /\ Len(input) > 0 => Len(audio.input) + Len(input[1]) <= MaxSamples
    /\ audio' = process(audio, input)
    /\ UNCHANGED <<state, dom, task, canvases, loader, call, raf>>

NextAudio == \E input \in Inputs : processCall(input)

SpecAudio == Init /\ [][NextAudio]_vars

-----------------------------------------------------------------------------
(* Claims.                                                                 *)

Frames(t) == {task[t].dem, task[t].sat}
Installed == <<state.terrain, state.heightmapTexture, state.colorTexture>>

\* C1: in a mosaic fetch nothing is drawn on the mosaic before every tile
\* fetch of the run has settled, and a failed fetch aborts nothing: a frame
\* that is not joined is still being awaited by its task with an empty
\* canvas, and a joined frame has no tile pending.
C1_JoinBarrier ==
    \A t \in Tasks : \A fr \in Frames(t) :
        fr.started =>
            /\ canvases[fr.canvas] # {} => fr.joined
            /\ fr.joined => Pending(fr) = {}
            /\ ~fr.joined => InFlight(t) /\ Awaited(t) = fr

\* A joined elevation mosaic with a failed and a drawn tile, its run now
\* awaiting the imagery tiles.
C1_Witness ==
    \E t \in Tasks :
        /\ task[t].dem.joined
        /\ Failed(task[t].dem) # {}
        /\ canvases[task[t].dem.canvas] # {}
        /\ task[t].pc = "sat_await"
        /\ Pending(task[t].sat) # {}

\* C2: a fetchDEM run raises the no-data error exactly when no tile
\* succeeded; its mosaic holds every successful tile at the pixel offset
\* ((x - xMin) * 256, (y - yMin) * 256) and nothing where a tile failed.
C2_PartialMosaic ==
    \A t \in Tasks :
        LET fr == task[t].dem
            cv == canvases[fr.canvas]
        IN  fr.joined =>
              /\ fr.error <=> Succeeded(fr) = {}
              /\ \A tl \in Succeeded(fr) :
                    \E d \in cv : /\ d.img = [zoom |-> demZoom, x |-> tl[1], y |-> tl[2]]
                                  /\ d.x = (tl[1] - fr.xMin) * tileSize
                                  /\ d.y = (tl[2] - fr.yMin) * tileSize
              /\ \A tl \in Failed(fr) :
                    \A d \in cv : ~ ( /\ d.x = (tl[1] - fr.xMin) * tileSize
                                      /\ d.y = (tl[2] - fr.yMin) * tileSize )
              /\ Cardinality(cv) = Cardinality(Succeeded(fr))

\* A two-tile elevation run with one tile missing that raised no error.
C2_Witness ==
    \E t \in Tasks :
        /\ task[t].dem.joined /\ ~task[t].dem.error
        /\ Cardinality(Succeeded(task[t].dem)) = 1
        /\ Cardinality(Failed(task[t].dem)) = 1
        /\ Cardinality(canvases[task[t].dem.canvas]) = 1

C4_FailedLoadKeepsTerrain ==
    [][ \A t \in Tasks :
          ( /\ task[t].kind = "loadLocationTerrain"
            /\ task[t].dem.error
            /\ state.terrain # NULL
            /\ task'[t] # task[t] )
          => Installed' = Installed ]_vars

\* C5: once a later load request has started, the earlier request that was
\* still in flight installs nothing any more.
C5_SupersededDiscarded ==
    [][ \A t \in Tasks :
          (task[t].superseded /\ task'[t] # task[t]) => Installed' = Installed ]_vars

\* C6: every tile drawn on a mosaic was fetched by the run that owns the
\* mosaic, for a tile of that run's own range at that stage's zoom.
C6_OwnMosaic ==
    \A c \in CanvasIds : \A d \in canvases[c] :
        LET fr == IF c.stage = "dem" THEN task[c.owner].dem ELSE task[c.owner].sat
        IN  /\ d.by = c.owner
            /\ fr.started /\ fr.canvas = c
            /\ d.img.zoom = fr.zoom
            /\ d.img.x \in fr.xMin..fr.xMax
            /\ d.img.y \in fr.yMin..fr.yMax
            /\ fr.tiles[<<d.img.x, d.img.y>>] = "ok"

\* Two runs in flight for different places, each with tiles on its mosaic.
C6_Witness ==
    /\ \A t \in Tasks : task[t].pc = "sat_await" /\ canvases[task[t].dem.canvas] # {}
    /\ \E t, u \in Tasks : task[t].dem.b # task[u].dem.b

\* C7: the imagery stage of a loadLocationTerrain call uses the bounds of
\* that call, as its elevation stage did, and the heightmap and the colour
\* texture of the installed mesh derive from the same box.
C7_OneBoundsPerRun ==
    /\ \A t \in Tasks :
          (task[t].kind = "loadLocationTerrain" /\ task[t].sat.started)
             => /\ task[t].sat.b = BoxAround(task[t].loc.lat, task[t].loc.lon)
                /\ task[t].sat.b = task[t].dem.b
    /\ ( /\ state.terrain # NULL
         /\ state.terrain.heights.kind = "displaced"
         /\ state.terrain.material.map.kind = "satellite" )
       => state.terrain.heights.heightmap.bounds = state.terrain.material.map.bounds

\* C8: an imagery load whose tiles all failed installs nothing: no installed
\* satellite texture, colour texture or mesh material is an all-blank raster.
C8_NoBlankImagery ==
    /\ state.satelliteTexture # NULL => state.satelliteTexture.mosaic # {}
    /\ state.colorTexture.kind = "satellite" => state.colorTexture.mosaic # {}
    /\ (state.terrain # NULL /\ state.terrain.material.map.kind = "satellite")
          => state.terrain.material.map.mosaic # {}

\* C9: the scene holds at most one terrain mesh and state.terrain is that
\* mesh; there is none before the first synthesis and one ever after.
C9_OneTerrainMesh ==
    /\ TerrainMeshes(state.scene) = IF state.terrain = NULL THEN {} ELSE {state.terrain}
    /\ Cardinality(TerrainMeshes(state.scene)) <= 1
    /\ state.terrain = NULL =>
          /\ state.heightmapTexture = NULL
          /\ state.satelliteTexture = NULL
          /\ loader.loaded = {}

\* A displaced, satellite-textured mesh: the mesh of the elevation stage has
\* been replaced by the one of the imagery stage.
C9_Witness ==
    /\ state.terrain # NULL
    /\ state.terrain.heights.kind = "displaced"
    /\ state.terrain.material.map.kind = "satellite"
    /\ Cardinality(state.scene) = 4

\* The installed mesh was synthesized from the current heightmap, colour
\* source and exaggeration.
MeshIsCurrent ==
    /\ IF state.heightmapTexture # NULL
       THEN /\ state.terrain.heights.kind = "displaced"
            /\ state.terrain.heights.heightmap = state.heightmapTexture
            /\ state.terrain.heights.scale = dom.exag
       ELSE state.terrain.heights.kind = "flat"
    /\ state.terrain.material.map = state.colorTexture
    /\ state.terrain.material.vertexColors = (state.colorTexture = NULL)

\* C10 as stated: after every handler, a present mesh is the one synthesized
\* from the current heightmap, colour source and exaggeration.
C10_RebuiltAfterHandler == state.terrain # NULL => MeshIsCurrent

\* C10 amended: the same, except while the colour source is an uploaded
\* texture whose load callback has not run (yet, or at all).
C10_RebuiltAfterCallback ==
    ( /\ state.terrain # NULL
      /\ state.colorTexture.kind = "upload" => state.colorTexture.id \in loader.loaded )
    => MeshIsCurrent

\* A mesh rebuilt by the load callback of an uploaded texture, over a
\* heightmap.
C10_Witness ==
    /\ state.terrain # NULL
    /\ state.colorTexture.kind = "upload"
    /\ state.colorTexture.id \in loader.loaded
    /\ state.terrain.heights.kind = "displaced"
    /\ state.terrain.material.map = state.colorTexture

\* The decoder has run on the mosaic of `call`.
Decoded == call.fn = "fetchDEM" /\ call.pc = "installed"
Pixels == 0..((Len(call.data) \div 4) - 1)
ValidElevations == { call.elevation[i] : i \in { j \in Pixels : call.elevation[j] > 0 } }

\* createTerrain has built the geometry of `call`.
MeshBuilt == call.fn = "createTerrain" /\ call.pc = "return"

\* The red byte of the heightmap pixel under vertex i of the grid.
SampleUnder(i) ==
    LET img == state.heightmapTexture.image
        px  == ((i % (segments + 1)) * (img.width - 1)) \div segments
        py  == ((i \div (segments + 1)) * (img.height - 1)) \div segments
    IN  img.data[(py * img.width + px) * 4 + 1]

\* C11: the height applyHeightmapToGeometry gives a vertex is the heightmap
\* sample under it, divided by 255 and multiplied by the exaggeration: it is
\* 0 when the exaggeration is 0, and the heights of the same heightmap under
\* two exaggerations are in the ratio of the exaggerations.
C11_HeightIsSampleTimesExag ==
    (MeshBuilt /\ state.heightmapTexture # NULL) =>
        \A i \in DOMAIN call.geometry.positions :
            LET z == call.geometry.positions[i]
            IN  /\ z * 255 = SampleUnder(i) * dom.exag * HeightUnit
                /\ dom.exag = 0 => z = 0
                /\ \A e \in MeshExagValues :
                       applyHeightmapToGeometry(PlaneGeometry,
                           state.heightmapTexture.image, e)[i] * dom.exag = z * e

C11_Witness ==
    /\ MeshBuilt /\ state.heightmapTexture # NULL /\ dom.exag = 30
    /\ \E i, j \in DOMAIN call.geometry.positions :
           /\ call.geometry.positions[i] = 30 * HeightUnit
           /\ call.geometry.positions[j] = 0

\* C12: after a successful elevation load state.elevationMin and
\* state.elevationMax are the minimum and the maximum of the valid samples
\* of the raster just decoded.
C12_ElevationRangePublished ==
    (Decoded /\ ValidElevations # {} /\ dom.status.type = "success") =>
        /\ state.elevationMin * ElevationUnit = call.eMin
        /\ state.elevationMax * ElevationUnit = call.eMax

\* C13: when the decoded raster has min < max, every normalized sample is a
\* byte 0..255, the pixels at the minimum get 0 and the pixels at the
\* maximum get 255.
C13_NormalizedRange ==
    (Decoded /\ call.eMin < call.eMax) =>
        \A i \in Pixels :
            /\ call.hmData[i * 4 + 1] \in 0..255
            /\ call.hmData[i * 4 + 2] = call.hmData[i * 4 + 1]
            /\ call.hmData[i * 4 + 3] = call.hmData[i * 4 + 1]
            /\ call.elevation[i] = call.eMin => call.hmData[i * 4 + 1] = 0
            /\ call.elevation[i] = call.eMax => call.hmData[i * 4 + 1] = 255

C13_Witness ==
    /\ Decoded /\ call.eMin < call.eMax
    /\ \E i, j, k \in Pixels :
           /\ call.hmData[i * 4 + 1] = 0 /\ call.elevation[i] = call.eMin
           /\ call.hmData[j * 4 + 1] = 255
           /\ call.hmData[k * 4 + 1] \in 1..254

\* C14: when the range is degenerate (one valid value only, or no valid
\* pixel, min and max still at their initial infinities) every normalized
\* sample is 0 and the load completes: the heightmap is installed and the
\* status reports success.
C14_DegenerateRangeFlat ==
    (Decoded /\ ~(call.eMin < call.eMax)) =>
        /\ \A i \in Pixels : \A c \in 1..3 : call.hmData[i * 4 + c] = 0
        /\ state.heightmapTexture # NULL
        /\ state.heightmapTexture.image.data = call.hmData
        /\ dom.status.type = "success"

C14_Witness ==
    /\ Decoded /\ call.eMin = call.eMax
    /\ \E i, j \in Pixels : call.elevation[i] > 0 /\ call.elevation[j] <= 0

\* C15: min and max range over the pixels decoding to a value > 0 and over
\* no other: with a valid pixel both are values of valid pixels that bound
\* every valid value, and without one they keep their initial infinities.
C15_RangeOverValidPixels ==
    Decoded =>
        IF ValidElevations = {}
        THEN call.eMin = Infinity /\ call.eMax = -Infinity
        ELSE /\ call.eMin \in ValidElevations
             /\ call.eMax \in ValidElevations
             /\ \A v \in ValidElevations : call.eMin <= v /\ v <= call.eMax

C15_Witness ==
    /\ Decoded /\ ValidElevations # {}
    /\ \E i, j \in Pixels :
           /\ call.elevation[i] = -32768 * ElevationUnit
           /\ call.elevation[j] = 0

\* C16: the decoded elevation of a pixel is R * 256 + G + B / 256 - 32768,
\* that is 65536 * R + 256 * G + B - 8388608 in units of 1/256 m; (0, 0, 0)
\* decodes to -32768 m, (128, 0, 0) to 0, and pixels that differ in alpha
\* only decode to the same value.
C16_TerrariumDecode ==
    Decoded =>
        \A i \in Pixels :
            LET R == call.data[i * 4 + 1]
                G == call.data[i * 4 + 2]
                B == call.data[i * 4 + 3]
            IN  /\ call.elevation[i] = 65536 * R + 256 * G + B - 8388608
                /\ (R = 0 /\ G = 0 /\ B = 0) => call.elevation[i] = -32768 * 256
                /\ (R = 128 /\ G = 0 /\ B = 0) => call.elevation[i] = 0
                /\ \A j \in Pixels :
                       (call.data[j * 4 + 1] = R /\ call.data[j * 4 + 2] = G
                            /\ call.data[j * 4 + 3] = B)
                       => call.elevation[j] = call.elevation[i]

C16_Witness ==
    /\ Decoded
    /\ \E i, j, k \in Pixels :
           /\ call.elevation[i] = -32768 * 256 /\ call.data[i * 4 + 4] = 0
           /\ call.elevation[j] = 100 * 256 /\ call.data[j * 4 + 4] = 255
           /\ call.elevation[k] = 100 * 256 /\ call.data[k * 4 + 4] = 128

\* A frame whose fan-out has run over a box with north > south, east > west.
FannedOut(fr) == fr.started /\ fr.b.north > fr.b.south /\ fr.b.east > fr.b.west

\* C17: the tiles requested for a box are exactly the tiles of the rectangle
\* spanned by the tile coordinates of its north-west and south-east corners,
\* one request each; the mosaic is 256 pixels per tile column wide and per
\* tile row high, and the blit rectangles of the tiles lie inside the mosaic
\* and do not overlap.
C17_TileRectangle ==
    \A t \in Tasks : \A fr \in Frames(t) :
        FannedOut(fr) =>
            LET nw == latLonToTile(fr.b.north, fr.b.west, fr.zoom)
                se == latLonToTile(fr.b.south, fr.b.east, fr.zoom)
                x0 == Min(nw.x, se.x)
                x1 == Max(nw.x, se.x)
                y0 == Min(nw.y, se.y)
                y1 == Max(nw.y, se.y)
            IN  /\ DOMAIN fr.tiles = (x0..x1) \X (y0..y1)
                /\ fr.requests = Cardinality(DOMAIN fr.tiles)
                /\ fr.width = (x1 - x0 + 1) * 256
                /\ fr.height = (y1 - y0 + 1) * 256
                /\ \A tl \in DOMAIN fr.tiles :
                       LET d == TileResult(fr, t, tl)
                       IN  /\ 0 <= d.x /\ d.x + 256 <= fr.width
                           /\ 0 <= d.y /\ d.y + 256 <= fr.height
                /\ \A tl, tm \in DOMAIN fr.tiles :
                       LET d == TileResult(fr, t, tl)
                           e == TileResult(fr, t, tm)
                       IN  tl # tm =>
                             \/ d.x + 256 <= e.x \/ e.x + 256 <= d.x
                             \/ d.y + 256 <= e.y \/ e.y + 256 <= d.y

C17_Witness ==
    \E t \in Tasks : \E fr \in Frames(t) :
        /\ FannedOut(fr)
        /\ fr.xMax > fr.xMin + 1 /\ fr.yMax > fr.yMin
        /\ fr.requests = (fr.xMax - fr.xMin + 1) * 2

\* C18: every tile requested for a box with north > south, east > west,
\* longitudes in [-180, 180] and latitudes inside the Mercator range has
\* 0 <= x < 2^zoom and 0 <= y < 2^zoom.
C18_TileCoordinatesInRange ==
    \A t \in Tasks : \A fr \in Frames(t) :
        ( /\ FannedOut(fr)
          /\ -180000 <= fr.b.west /\ fr.b.east <= 180000
          /\ -85051 < fr.b.south /\ fr.b.north < 85051 )
        => \A tl \in DOMAIN fr.tiles :
               /\ 0 <= tl[1] /\ tl[1] < Pow2(fr.zoom)
               /\ 0 <= tl[2] /\ tl[2] < Pow2(fr.zoom)

\* C19: createTerrain textures the mesh from state.colorTexture when it is
\* set and then computes no vertex colours; otherwise, and only otherwise,
\* the material takes vertex colours and every vertex has its colour of the
\* elevation ramp.
C19_TextureOrRamp ==
    MeshBuilt =>
        IF state.colorTexture # NULL
        THEN /\ state.terrain.material.map = state.colorTexture
             /\ ~state.terrain.material.vertexColors
             /\ call.geometry.color = NULL
        ELSE /\ state.terrain.material.map = NULL
             /\ state.terrain.material.vertexColors
             /\ DOMAIN call.geometry.color = DOMAIN call.geometry.positions
             /\ \A i \in DOMAIN call.geometry.positions :
                    call.geometry.color[i] = TerrainColor(call.geometry.positions[i])

C19_Witness ==
    /\ MeshBuilt /\ state.colorTexture = NULL /\ state.heightmapTexture # NULL
    /\ state.terrain.material.vertexColors
    /\ \E i, j \in DOMAIN call.geometry.positions :
           /\ call.geometry.color[i] = <<15 * 45900, 35 * 45900, 15 * 45900>>
           /\ call.geometry.color[j] = <<95 * 45900, 95 * 45900, 95 * 45900>>

\* The four bands of the ramp: the limits of h and the colours at the two
\* ends, in hundredths.
RampBands ==
    << [lo |-> 0,  hi |-> 20,  from |-> <<15, 35, 15>>, to |-> <<21, 40, 15>>],
       [lo |-> 20, hi |-> 50,  from |-> <<21, 40, 15>>, to |-> <<56, 25, 25>>],
       [lo |-> 50, hi |-> 75,  from |-> <<56, 45, 25>>, to |-> <<40, 30, 50>>],
       [lo |-> 75, hi |-> 100, from |-> <<60, 60, 65>>, to |-> <<95, 95, 95>>] >>

\* C20: with h = clamp(z / 30, 0, 1) the colour of a vertex of height z comes
\* from band 0 when h < 0.2, band 1 when 0.2 <= h < 0.5, band 2 when
\* 0.5 <= h < 0.75 and band 3 when h >= 0.75; each component is the linear
\* interpolation of the colours at the two ends of the band by the fraction
\* of the band passed, and lies in [0, 1].
C20_RampBands ==
    (call.pc = "return" /\ DOMAIN call.geometry.color = DOMAIN call.geometry.positions) =>
        \A i \in DOMAIN call.geometry.positions :
            LET cent == (30 * HeightUnit) \div 100
                z    == call.geometry.positions[i]
                h    == IF z < 0 THEN 0 ELSE IF z > 100 * cent THEN 100 * cent ELSE z
                band == IF h < 20 * cent THEN RampBands[1]
                        ELSE IF h < 50 * cent THEN RampBands[2]
                        ELSE IF h < 75 * cent THEN RampBands[3]
                        ELSE RampBands[4]
                step == (ColourUnit \div 100) \div ((band.hi - band.lo) * cent)
            IN  \A c \in 1..3 :
                    /\ call.geometry.color[i][c] =
                           band.from[c] * (ColourUnit \div 100)
                           + (band.to[c] - band.from[c]) * step * (h - band.lo * cent)
                    /\ 0 <= call.geometry.color[i][c]
                    /\ call.geometry.color[i][c] <= ColourUnit

C20_Witness ==
    /\ call.fn = "applyTerrainColors" /\ call.pc = "return"
    /\ call.geometry.positions[0] = 20 * ((30 * HeightUnit) \div 100)
    /\ call.geometry.positions[1] = 75 * ((30 * HeightUnit) \div 100)
    /\ call.geometry.color[0] = <<21 * 45900, 40 * 45900, 15 * 45900>>
    /\ call.geometry.color[1] = <<60 * 45900, 60 * 45900, 65 * 45900>>

\* C21: adjacent bands of the ramp share their end colour: a vertex whose h
\* is exactly a band limit (0.2, 0.5 or 0.75), coloured from the start of the
\* upper band, has the colour the lower band ends at, in all three components.
C21_BandsShareEndpoints ==
    (call.pc = "return" /\ DOMAIN call.geometry.color = DOMAIN call.geometry.positions) =>
        \A i \in DOMAIN call.geometry.positions : \A k \in 1..3 :
            call.geometry.positions[i] = RampBands[k].hi * ((30 * HeightUnit) \div 100)
            => \A c \in 1..3 :
                   call.geometry.color[i][c] = RampBands[k].to[c] * (ColourUnit \div 100)

\* The textures installed from a mosaic of a box with north > south, east > west.
CroppedTextures ==
    { tex \in {state.heightmapTexture, state.satelliteTexture} :
        /\ tex # NULL
        /\ tex.bounds.north > tex.bounds.south
        /\ tex.bounds.east > tex.bounds.west }

\* C22: tileToLatLon of the tile latLonToTile gives a point is the north-west
\* corner of the tile containing the point: the corner's longitude is at most
\* the point's, less than one tile width (360 / 2^zoom) below it, and the
\* point's latitude lies between the latitude of the next row's edge and the
\* corner's.  Checked on the box corners: the north-west one, which the crop
\* takes the round trip of, and the south-east one.
C22_TileCornerContainsPoint ==
    \A tex \in CroppedTextures :
        LET z   == tex.zoom
            nw  == latLonToTile(tex.bounds.north, tex.bounds.west, z)
            se  == latLonToTile(tex.bounds.south, tex.bounds.east, z)
            cnw == tex.crop.tileBoundsNW
            cse == tileToLatLon(se.x, se.y, z)
            tileWidth == 5625 * Pow2(13 - z)
        IN  /\ nw.x = tex.xMin /\ nw.y = tex.yMin
            /\ cnw.lon <= tex.bounds.west * AngleUnit
            /\ tex.bounds.west * AngleUnit < cnw.lon + tileWidth
            /\ tileToLatLon(nw.x, nw.y + 1, z).lat <= tex.bounds.north * AngleUnit
            /\ tex.bounds.north * AngleUnit <= cnw.lat
            /\ cse.lon <= tex.bounds.east * AngleUnit
            /\ tex.bounds.east * AngleUnit < cse.lon + tileWidth
            /\ tileToLatLon(se.x, se.y + 1, z).lat <= tex.bounds.south * AngleUnit
            /\ tex.bounds.south * AngleUnit <= cse.lat

C22_Witness ==
    \E tex \in CroppedTextures :
        /\ tex.zoom = satZoom
        /\ tex.crop.tileBoundsNW.lon < tex.bounds.west * AngleUnit
        /\ tex.crop.tileBoundsNW.lat > tex.bounds.north * AngleUnit
        /\ tex.xMax > tex.xMin

\* C25: for a box with north > south and east > west inside the Mercator
\* range the crop rectangle lies inside the mosaic, in the elevation and in
\* the imagery path: cropX >= 0, cropY >= 0, cropX + cropW <= width,
\* cropY + cropH <= height, cropW > 0 and cropH > 0.
C25_CropInsideMosaic ==
    \A tex \in CroppedTextures :
        ( -85051 < tex.bounds.south /\ tex.bounds.north < 85051 ) =>
            LET c == tex.crop
            IN  /\ c.lonSpan > 0 /\ c.latSpan > 0
                /\ 0 <= c.x /\ 0 <= c.y
                /\ c.w > 0 /\ c.h > 0
                /\ c.x + c.w <= tex.width * c.lonSpan
                /\ c.y + c.h <= tex.height * c.latSpan

C25_Witness ==
    /\ state.heightmapTexture \in CroppedTextures
    /\ state.satelliteTexture \in CroppedTextures
    /\ state.heightmapTexture.crop.x > 0
    /\ state.satelliteTexture.crop.y > 0
    /\ state.satelliteTexture.width > 256

\* fetchDEM of task t has ended: it is past its join, the loading overlay is
\* hidden, and either the heightmap of the box and a mesh built from it are
\* installed or the catch block has reported the error.
DemEnded(t) ==
    /\ task[t].pc # "dem_await"
    /\ ~dom.loading
    /\ \/ /\ state.heightmapTexture # NULL
          /\ state.heightmapTexture.bounds = state.bounds
          /\ state.terrain # NULL
          /\ state.terrain.heights = MeshHeights(state.heightmapTexture, dom.exag)
       \/ dom.status.type = "error"
       \/ task[t].pc = "sat_await" /\ task[t].dem.error

\* C23: when every tile fetch of a run settles in the end, fetchDEM ends:
\* with the terrain installed or with the error reported, and in both cases
\* with the loading overlay hidden; it waits for nothing but the join.
C23_LoadFinishes ==
    \A t \in Tasks : (task[t].pc = "dem_await") ~> DemEnded(t)

C23_Witness ==
    \E t \in Tasks :
        /\ task[t].pc = "sat_await" /\ task[t].dem.joined /\ ~task[t].dem.error
        /\ task[t].dem.loaded < Cardinality(DOMAIN task[t].dem.tiles)
        /\ DemEnded(t)

\* C24: the step that toggles satellite mode off rebuilds the mesh without
\* the satellite imagery: state.colorTexture no longer refers to the
\* satellite texture and the material of the rebuilt mesh has no satellite
\* map, so that the mesh shows the elevation colours.
C24_TerrainViewDropsSatellite ==
    [][ (state.satelliteMode /\ ~state'.satelliteMode
            /\ dom'.status.msg = "Terrain view enabled")
        => /\ state'.colorTexture.kind # "satellite"
           /\ state'.terrain # NULL
           /\ state'.terrain.material.map.kind # "satellite" ]_vars

\* C26: at most one flood animation loop runs at a time: whatever the
\* clicks on water-animate and water-reset and the frames, at most one
\* animateFlood callback is pending, so that a frame raises the level by
\* one step only.
C26_OneFloodLoop == raf <= 1

\* C27: a flood animation that is started and left to run starts from level
\* 0, never exceeds 100, reaches exactly 100 and then stops itself:
\* waterAnimating is false and no frame is requested any more.
C27_FloodRunsToFull ==
    /\ [](state.waterLevel <= WaterFull)
    /\ [][(~state.waterAnimating /\ state'.waterAnimating)
            => state'.waterLevel = WaterStep]_vars
    /\ state.waterAnimating ~>
          (state.waterLevel = WaterFull /\ ~state.waterAnimating /\ raf = 0)

C27_Witness ==
    /\ state.waterLevel = WaterFull
    /\ ~state.waterAnimating
    /\ raf = 0
    /\ dom.status.msg = "Flood simulation complete!"
    /\ dom.waterSlider = WaterFull

\* C28: state.planeMode is true exactly when state.cameraMode is "fly",
\* after any sequence of fly-mode toggles and tour actions.
C28_PlaneModeIffFly == state.planeMode <=> state.cameraMode = "fly"

\* C29: in measure mode, after every click that hits the terrain,
\* state.measurePoints holds 1 or 2 points, state.measureLabels holds one
\* marker per point, at the point and in the scene, and state.measureLine is
\* present exactly when there are 2 points; the click adds its point to a
\* measurement of fewer than 2 points, and after 2 points it discards the
\* measurement and starts a new one with its point as the first.
C29_MeasureClick ==
    [][ \A point \in HitPoints :
          (state.measureMode /\ state.terrain # NULL /\ onMeasureClick(point))
          => /\ Len(state'.measurePoints) \in {1, 2}
             /\ Len(state'.measureLabels) = Len(state'.measurePoints)
             /\ \A i \in DOMAIN state'.measurePoints :
                   /\ state'.measureLabels[i].position = state'.measurePoints[i]
                   /\ state'.measureLabels[i] \in state'.scene
             /\ Cardinality(Markers(state'.scene)) = Len(state'.measurePoints)
             /\ (state'.measureLine # NULL) <=> (Len(state'.measurePoints) = 2)
             /\ state'.measurePoints =
                   IF Len(state.measurePoints) < 2
                   THEN Append(state.measurePoints, point)
                   ELSE <<point>> ]_vars

C29_Witness ==
    /\ state.measureMode /\ state.terrain # NULL
    /\ Len(state.measurePoints) = 2
    /\ Len(state.measureLabels) = 2
    /\ state.measureLine # NULL
    /\ state.measureLine \in state.scene

RECURSIVE Flatten(_)
Flatten(msgs) == IF msgs = << >> THEN << >> ELSE Head(msgs) \o Flatten(Tail(msgs))

\* C30: after each call of process, bufferIndex is in [0, bufferSize),
\* every posted message holds exactly bufferSize samples, and the posted
\* messages followed by the first bufferIndex entries of the buffer are the
\* first-channel samples in arrival order.
C30_CaptureLossless ==
    /\ audio.bufferIndex \in 0..(bufferSize - 1)
    /\ \A k \in DOMAIN audio.posted : Len(audio.posted[k]) = bufferSize
    /\ Flatten(audio.posted) \o SubSeq(audio.buffer, 1, audio.bufferIndex) = audio.input

C30_Witness ==
    /\ Len(audio.posted) >= 1
    /\ audio.bufferIndex > 0
    /\ Len(audio.input) = bufferSize * Len(audio.posted) + audio.bufferIndex

====
